---- MODULE Spec2Model ----
(***************************************************************************)
(* Model of resources/js/Components/auth/LoginModal.vue: the login dialog  *)
(* that keeps an Inertia form (inertiaForm) and a vee-validate form        *)
(* (values / errors) in step and drives one submission lifecycle.          *)
(*                                                                         *)
(* Scheduling.  Event handlers (input, submit click, dialog toggle,        *)
(* transport completion) run to completion one at a time.  The four        *)
(* watch() callbacks are queued when their source changes and are flushed  *)
(* before the next event is handled; `pending` is that queue.              *)
(***************************************************************************)
EXTENDS Integers, Sequences, FiniteSets, TLC

VARIABLES
    inertiaForm,     \* useForm({...}): email, password, remember, errors, processing
    veeValues,       \* vee-validate's values
    veeErrors,       \* vee-validate's errors (field -> message shown)
    isLoginOpen,     \* modalStore.isLoginOpen
    pending,         \* watchers queued and not yet run
    phase,           \* position of the submission: Idle, Submitting, SideEffects
    inFlight,        \* submissions started and not yet finished
    transportCalls,  \* requests handed to the transport so far
    signals,         \* lifecycle callbacks run for the latest submission
    toasts,          \* notifications emitted so far
    lastEvent,       \* kind of the event handled last
    tick,            \* flips at every event (not at watcher runs or onFinish)
    before           \* open flag and inertiaForm.errors as the latest event found them

vars == <<inertiaForm, veeValues, veeErrors, isLoginOpen, pending, phase,
          inFlight, transportCalls, signals, toasts, lastEvent, tick, before>>

\* ---------------------------------------------------------------- bounds
\* Number of requests the model lets the form send.
MaxSubmits == 2

\* ------------------------------------------------------------ input sets
\* Strings the user may type into the inputs.
EmailInputs == {"", "bad", "a@b.com"}
PasswordInputs == {"", "x"}
\* Strings that zod's email() check accepts, among EmailInputs.
ValidEmails == {"a@b.com"}

Fields == {"email", "password", "remember"}

\* The empty error mapping {}.
NoErrors == [k \in {} |-> ""]

\* Error mappings the backend may answer with (onError's argument).
RemoteErrorSets ==
    { NoErrors,
      [email |-> "These credentials do not match our records."],
      [password |-> "Invalid credentials"],
      [email |-> "", password |-> "Invalid credentials"],
      [email |-> "These credentials do not match our records.",
       password |-> "Invalid credentials"] }

\* ------------------------------------------------------------ formSchema
\* Messages of the failing checks of the email chain, in chain order:
\* z.string().email({...}).min(1, {...}).  zod runs every check of a string
\* schema and reports one issue per failing check, in the order written.
emailIssues(v) ==
    (IF v \notin ValidEmails THEN <<"Please enter a valid email address">> ELSE <<>>)
    \o (IF v = "" THEN <<"Email is required">> ELSE <<>>)

\* z.string().min(1, {...}) for the password.
passwordIssues(v) ==
    IF v = "" THEN <<"Password must be at least 6 characters">> ELSE <<>>

\* z.boolean().optional(): a boolean always passes.
rememberIssues(v) == IF v \in BOOLEAN THEN <<>> ELSE <<"Expected boolean">>

issues(vals, f) ==
    CASE f = "email" -> emailIssues(vals.email)
      [] f = "password" -> passwordIssues(vals.password)
      [] f = "remember" -> rememberIssues(vals.remember)

\* The typed schema's result as the form shows it: for every field with at
\* least one issue, the first message of that field.
formSchema(vals) ==
    LET bad == {f \in Fields : issues(vals, f) # <<>>}
    IN  [f \in bad |-> Head(issues(vals, f))]

\* ------------------------------------------------- vee-validate operations
\* setFieldValue(name, value): overwrite one projected value.
setFieldValue(vals, name, value) == [vals EXCEPT ![name] = value]

\* setErrors(errors): the error mapping of the validation form becomes the
\* given mapping.
setErrors(old, new) == new

\* ------------------------------------------------- inertia form operations
\* useForm({email: "", password: "", remember: false}): the defaults.
defaults == [email |-> "", password |-> "", remember |-> FALSE]

\* inertiaForm.reset(field): the field goes back to its default.
reset(form, f) == [form EXCEPT ![f] = defaults[f]]

\* A clearErrors that also lowers processing.
clearErrorsAndProcessing(form) ==
    [form EXCEPT !.errors = NoErrors, !.processing = FALSE]

\* inertiaForm.clearErrors(): errors becomes a fresh empty object.
clearErrors(form) == [form EXCEPT !.errors = NoErrors]

\* modalStore.hideModal(Modal.LOGIN): the login flag is closed.
hideModal(open) == FALSE

\* JavaScript truthiness of errors[k]: present and not the empty string.
Truthy(errs, k) == k \in DOMAIN errs /\ errs[k] # ""

\* The description with the two fields looked up in the other order.
failureDescriptionPasswordFirst(errs) ==
    IF Truthy(errs, "password") THEN errs["password"]
    ELSE IF Truthy(errs, "email") THEN errs["email"]
    ELSE "Check credentials and try again."

\* errors.email || errors.password || "Check credentials and try again."
failureDescription(errs) ==
    IF Truthy(errs, "email") THEN errs["email"]
    ELSE IF Truthy(errs, "password") THEN errs["password"]
    ELSE "Check credentials and try again."

\* Watcher jobs queued by going from form `old` to form `new`: a value
\* watcher is queued when its field's value differs, the errors watcher when
\* `errorsReplaced` (the errors object was replaced by a new one).
queued(old, new, errorsReplaced) ==
    {f \in Fields : old[f] # new[f]}
    \cup (IF errorsReplaced THEN {"errors"} ELSE {})

\* ------------------------------------------------------------------ Init
Init ==
    /\ inertiaForm = [email |-> defaults.email, password |-> defaults.password,
                      remember |-> defaults.remember,
                      errors |-> NoErrors, processing |-> FALSE]
    /\ veeValues = [email |-> inertiaForm.email, password |-> inertiaForm.password,
                    remember |-> inertiaForm.remember]
    /\ veeErrors = NoErrors
    /\ isLoginOpen \in BOOLEAN
    /\ pending = {}
    /\ phase = "Idle"
    /\ inFlight = 0
    /\ transportCalls = 0
    /\ signals = <<>>
    /\ toasts = <<>>
    /\ lastEvent = "init"
    /\ tick = FALSE
    /\ before = [open |-> isLoginOpen, errors |-> NoErrors]

\* --------------------------------------------------------------- actions
\* Events taken up while watchers are still queued.
ReadyIgnoringWatchers == phase # "SideEffects"

\* An event is taken up only when the queued watchers have run and no
\* completion handler is half way through.
Ready == pending = {} /\ phase # "SideEffects"

\* v-model / @update:checked on the three inputs: the user writes one field
\* of inertiaForm.  The inputs are inside the dialog's content.
SetField(name, value) ==
    /\ Ready
    /\ isLoginOpen
    /\ inertiaForm' = [inertiaForm EXCEPT ![name] = value]
    /\ pending' = queued(inertiaForm, inertiaForm', FALSE)
    /\ lastEvent' = "setField"
    /\ tick' = ~tick
    /\ before' = [open |-> isLoginOpen, errors |-> inertiaForm.errors]
    /\ UNCHANGED <<veeValues, veeErrors, isLoginOpen, phase, inFlight,
                   transportCalls, signals, toasts>>

\* watch(() => inertiaForm.email, v => setFieldValue("email", v))
WatchEmail ==
    /\ "email" \in pending
    /\ veeValues' = setFieldValue(veeValues, "email", inertiaForm.email)
    /\ pending' = pending \ {"email"}
    /\ UNCHANGED <<inertiaForm, veeErrors, isLoginOpen, phase, inFlight,
                   transportCalls, signals, toasts, lastEvent, tick, before>>

\* The password watcher with the field name of the email watcher.
WatchPasswordWrongField ==
    /\ "password" \in pending
    /\ veeValues' = setFieldValue(veeValues, "email", inertiaForm.password)
    /\ pending' = pending \ {"password"}
    /\ UNCHANGED <<inertiaForm, veeErrors, isLoginOpen, phase, inFlight,
                   transportCalls, signals, toasts, lastEvent, tick, before>>

\* watch(() => inertiaForm.password, v => setFieldValue("password", v))
WatchPassword ==
    /\ "password" \in pending
    /\ veeValues' = setFieldValue(veeValues, "password", inertiaForm.password)
    /\ pending' = pending \ {"password"}
    /\ UNCHANGED <<inertiaForm, veeErrors, isLoginOpen, phase, inFlight,
                   transportCalls, signals, toasts, lastEvent, tick, before>>

\* watch(() => inertiaForm.remember, v => setFieldValue("remember", v))
WatchRemember ==
    /\ "remember" \in pending
    /\ veeValues' = setFieldValue(veeValues, "remember", inertiaForm.remember)
    /\ pending' = pending \ {"remember"}
    /\ UNCHANGED <<inertiaForm, veeErrors, isLoginOpen, phase, inFlight,
                   transportCalls, signals, toasts, lastEvent, tick, before>>

\* The errors watcher forwarding only a mapping that has keys.
WatchErrorsSkipEmpty ==
    /\ "errors" \in pending
    /\ veeErrors' = IF inertiaForm.errors # NoErrors
                      THEN setErrors(veeErrors, inertiaForm.errors)
                      ELSE veeErrors
    /\ pending' = pending \ {"errors"}
    /\ UNCHANGED <<inertiaForm, veeValues, isLoginOpen, phase, inFlight,
                   transportCalls, signals, toasts, lastEvent, tick, before>>

\* An errors watcher wired the other way round.
WatchErrorsBackwards ==
    /\ "errors" \in pending
    /\ inertiaForm' = [inertiaForm EXCEPT !.errors = veeErrors]
    /\ pending' = pending \ {"errors"}
    /\ UNCHANGED <<veeValues, veeErrors, isLoginOpen, phase, inFlight,
                   transportCalls, signals, toasts, lastEvent, tick, before>>

\* watch(() => inertiaForm.errors, e => { if (e) setErrors(e) }).  Every
\* object, the empty one included, is truthy.
WatchErrors ==
    /\ "errors" \in pending
    /\ veeErrors' = setErrors(veeErrors, inertiaForm.errors)
    /\ pending' = pending \ {"errors"}
    /\ UNCHANGED <<inertiaForm, veeValues, isLoginOpen, phase, inFlight,
                   transportCalls, signals, toasts, lastEvent, tick, before>>

\* A submit button that is never disabled.
SubmitNeverDisabled == FALSE

\* <Button type="submit" :disabled="inertiaForm.processing">
SubmitDisabled == inertiaForm.processing

\* A handleSubmit that runs its callback whatever the validation found.
gateNeverBlocks(gate) == FALSE

\* handleSubmit(cb): cb runs only when validation found no error.
gateBlocks(gate) == gate # NoErrors

\* A validation that keeps the messages of fields it did not flag.
gateErrorsMerging(old, gate) ==
    [f \in (DOMAIN gate) \cup (DOMAIN old) |->
        IF f \in DOMAIN gate THEN gate[f] ELSE old[f]]

\* handleSubmit validates every field at once: the errors shown afterwards
\* are those of this validation, for all fields.
gateErrors(old, gate) == gate

\* A post that forgets to raise processing.
postWithoutProcessing ==
    /\ inertiaForm' = inertiaForm
    /\ phase' = "Submitting"
    /\ inFlight' = inFlight + 1
    /\ transportCalls' = transportCalls + 1
    /\ signals' = <<>>

\* inertiaForm.post(route("login"), {...}): processing is raised and the
\* current values go to the transport.
post ==
    /\ inertiaForm' = [inertiaForm EXCEPT !.processing = TRUE]
    /\ phase' = "Submitting"
    /\ inFlight' = inFlight + 1
    /\ transportCalls' = transportCalls + 1
    /\ signals' = <<>>

\* A click on the submit button.  While the button is disabled nothing
\* runs.  Otherwise onSubmit = handleSubmit(cb): the schema validates the
\* validation form's values; the errors it finds replace the shown errors
\* and cb (the post) runs only when there are none.
Submit ==
    /\ Ready
    /\ isLoginOpen
    /\ lastEvent' = "submit"
    /\ tick' = ~tick
    /\ before' = [open |-> isLoginOpen, errors |-> inertiaForm.errors]
    /\ IF SubmitDisabled
         THEN UNCHANGED <<inertiaForm, veeErrors, phase, inFlight,
                          transportCalls, signals>>
         ELSE LET gate == formSchema(veeValues)
              IN  /\ veeErrors' = gateErrors(veeErrors, gate)
                  /\ IF gateBlocks(gate)
                       THEN UNCHANGED <<inertiaForm, phase, inFlight,
                                        transportCalls, signals>>
                       ELSE /\ transportCalls < MaxSubmits
                            /\ post
    /\ UNCHANGED <<veeValues, isLoginOpen, pending, toasts>>

\* An onSuccess that also resets the form and leaves the modal as it is.
onSuccessResetting ==
    /\ inertiaForm' = [clearErrors(inertiaForm) EXCEPT
                         !.email = defaults.email,
                         !.password = defaults.password,
                         !.remember = defaults.remember]
    /\ pending' = queued(inertiaForm, inertiaForm', TRUE)
    /\ isLoginOpen' = isLoginOpen
    /\ toasts' = toasts

\* onSuccess: hide the modal, toast.success(...).  Inertia clears the
\* form's errors on a successful response before calling it.
onSuccess ==
    /\ inertiaForm' = clearErrors(inertiaForm)
    /\ pending' = queued(inertiaForm, inertiaForm', TRUE)
    /\ isLoginOpen' = hideModal(isLoginOpen)
    /\ toasts' = Append(toasts, [level |-> "success",
                                 title |-> "Login successful",
                                 description |-> "You have successfully logged in."])

\* An onError that resets the whole form instead of the password.
onErrorResetsAll(errors) ==
    /\ inertiaForm' = [inertiaForm EXCEPT
                         !.errors = errors,
                         !.email = defaults.email,
                         !.password = defaults.password,
                         !.remember = defaults.remember]
    /\ pending' = queued(inertiaForm, inertiaForm', TRUE)
    /\ isLoginOpen' = isLoginOpen
    /\ toasts' = Append(toasts, [level |-> "error",
                                 title |-> "Login failed",
                                 description |-> failureDescription(errors)])

\* An onError that also hides the modal.
onErrorHidesModal(errors) ==
    /\ inertiaForm' = reset([inertiaForm EXCEPT !.errors = errors], "password")
    /\ pending' = queued(inertiaForm, inertiaForm', TRUE)
    /\ isLoginOpen' = hideModal(isLoginOpen)
    /\ toasts' = Append(toasts, [level |-> "error",
                                 title |-> "Login failed",
                                 description |-> failureDescription(errors)])

\* onError(errors): the errors are already in inertiaForm.errors; reset the
\* password, toast.error(...).
onError(errors) ==
    /\ inertiaForm' = reset([inertiaForm EXCEPT !.errors = errors], "password")
    /\ pending' = queued(inertiaForm, inertiaForm', TRUE)
    /\ isLoginOpen' = isLoginOpen
    /\ toasts' = Append(toasts, [level |-> "error",
                                 title |-> "Login failed",
                                 description |-> failureDescription(errors)])

\* The transport answers the request with success: onSuccess runs.
ResolveSuccess ==
    /\ pending = {}
    /\ phase = "Submitting"
    /\ onSuccess
    /\ signals' = Append(signals, "Success")
    /\ phase' = "SideEffects"
    /\ lastEvent' = "success"
    /\ tick' = ~tick
    /\ before' = [open |-> isLoginOpen, errors |-> inertiaForm.errors]
    /\ UNCHANGED <<veeValues, veeErrors, inFlight, transportCalls>>

\* The transport answers the request with errors: onError(errors) runs.
ResolveFailure(errors) ==
    /\ pending = {}
    /\ phase = "Submitting"
    /\ onError(errors)
    /\ signals' = Append(signals, "Failure")
    /\ phase' = "SideEffects"
    /\ lastEvent' = "failure"
    /\ tick' = ~tick
    /\ before' = [open |-> isLoginOpen, errors |-> inertiaForm.errors]
    /\ UNCHANGED <<veeValues, veeErrors, inFlight, transportCalls>>

\* A completion that lowers processing without having run onFinish.
FinishSilently ==
    /\ phase = "SideEffects"
    /\ signals' = signals
    /\ inertiaForm' = [inertiaForm EXCEPT !.processing = FALSE]
    /\ inFlight' = inFlight - 1
    /\ phase' = IF inFlight' > 0 THEN "Submitting" ELSE "Idle"
    /\ UNCHANGED <<veeValues, veeErrors, isLoginOpen, pending,
                   transportCalls, toasts, lastEvent, tick, before>>

\* A completion that runs onFinish once and leaves processing raised.
FinishForgetsProcessing ==
    /\ phase = "SideEffects"
    /\ Len(signals) < 2
    /\ signals' = Append(signals, "Finished")
    /\ UNCHANGED <<inertiaForm, inFlight, phase, veeValues, veeErrors,
                   isLoginOpen, pending, transportCalls, toasts, lastEvent,
                   tick, before>>

\* onFinish runs after onSuccess / onError (its body is empty); processing
\* is lowered by the form itself.
Finish ==
    /\ phase = "SideEffects"
    /\ signals' = Append(signals, "Finished")
    /\ inertiaForm' = [inertiaForm EXCEPT !.processing = FALSE]
    /\ inFlight' = inFlight - 1
    /\ phase' = IF inFlight' > 0 THEN "Submitting" ELSE "Idle"
    /\ UNCHANGED <<veeValues, veeErrors, isLoginOpen, pending,
                   transportCalls, toasts, lastEvent, tick, before>>

\* An updateOpenState that only writes the flag.
updateOpenStateKeepsErrors(open) ==
    /\ Ready
    /\ isLoginOpen' = open
    /\ lastEvent' = IF open THEN "open" ELSE "close"
    /\ tick' = ~tick
    /\ before' = [open |-> isLoginOpen, errors |-> inertiaForm.errors]
    /\ UNCHANGED <<inertiaForm, pending, veeValues, veeErrors, phase, inFlight,
                   transportCalls, signals, toasts>>

\* An updateOpenState that resets the whole form when closing.
updateOpenStateResetsForm(open) ==
    /\ Ready
    /\ isLoginOpen' = open
    /\ IF ~open
         THEN /\ inertiaForm' = [clearErrors(inertiaForm) EXCEPT
                                   !.email = defaults.email,
                                   !.password = defaults.password,
                                   !.remember = defaults.remember]
              /\ pending' = queued(inertiaForm, inertiaForm', TRUE)
         ELSE UNCHANGED <<inertiaForm, pending>>
    /\ lastEvent' = IF open THEN "open" ELSE "close"
    /\ tick' = ~tick
    /\ before' = [open |-> isLoginOpen, errors |-> inertiaForm.errors]
    /\ UNCHANGED <<veeValues, veeErrors, phase, inFlight, transportCalls,
                   signals, toasts>>

\* updateOpenState(open): the dialog reports a change of its open state.
updateOpenState(open) ==
    /\ Ready
    /\ isLoginOpen' = open
    /\ IF ~open
         THEN /\ inertiaForm' = clearErrors(inertiaForm)
              /\ pending' = queued(inertiaForm, inertiaForm', TRUE)
         ELSE UNCHANGED <<inertiaForm, pending>>
    /\ lastEvent' = IF open THEN "open" ELSE "close"
    /\ tick' = ~tick
    /\ before' = [open |-> isLoginOpen, errors |-> inertiaForm.errors]
    /\ UNCHANGED <<veeValues, veeErrors, phase, inFlight, transportCalls,
                   signals, toasts>>

Next ==
    \/ \E v \in EmailInputs : SetField("email", v)
    \/ \E v \in PasswordInputs : SetField("password", v)
    \/ \E v \in BOOLEAN : SetField("remember", v)
    \/ WatchEmail
    \/ WatchPassword
    \/ WatchRemember
    \/ WatchErrors
    \/ Submit
    \/ ResolveSuccess
    \/ \E e \in RemoteErrorSets : ResolveFailure(e)
    \/ Finish
    \/ \E open \in BOOLEAN : updateOpenState(open)

Spec == Init /\ [][Next]_vars

\* The transport answers a request in flight, one way or the other.
Resolve == ResolveSuccess \/ \E e \in RemoteErrorSets : ResolveFailure(e)

\* Spec with the scheduling the program relies on: queued watchers run, a
\* completion handler runs to its end, and the transport answers every
\* request (it may be delayed by other events any number of times).
LiveSpec ==
    /\ Spec
    /\ WF_vars(WatchEmail)
    /\ WF_vars(WatchPassword)
    /\ WF_vars(WatchRemember)
    /\ WF_vars(WatchErrors)
    /\ WF_vars(Finish)
    /\ SF_vars(Resolve)

TypeOK ==
    /\ inertiaForm.email \in EmailInputs
    /\ inertiaForm.password \in PasswordInputs
    /\ inertiaForm.remember \in BOOLEAN
    /\ inertiaForm.processing \in BOOLEAN
    /\ inertiaForm.errors \in RemoteErrorSets
    /\ veeValues.email \in EmailInputs
    /\ veeValues.password \in PasswordInputs
    /\ veeValues.remember \in BOOLEAN
    /\ isLoginOpen \in BOOLEAN
    /\ pending \subseteq Fields \cup {"errors"}
    /\ phase \in {"Idle", "Submitting", "SideEffects"}
    /\ inFlight \in 0..MaxSubmits
    /\ transportCalls \in 0..MaxSubmits
    /\ Len(toasts) <= MaxSubmits

\* ------------------------------------------------------- claim vocabulary
\* The step handles an event of kind k (watcher runs and onFinish keep tick).
EventStep(k) == tick' # tick /\ lastEvent' = k

FormValues(form) == [f \in Fields |-> form[f]]

\* C1: a submit whose validation of the validation form's values finds an
\* error hands nothing to the transport and does not raise processing.
GateBlocksNetwork ==
    [][(EventStep("submit") /\ formSchema(veeValues) # NoErrors)
         => /\ transportCalls' = transportCalls
            /\ inFlight' = inFlight
            /\ inertiaForm'.processing = inertiaForm.processing]_vars

\* C1 witness: a submit was just refused by the gate, which left its errors.
GateBlocksNetworkWitness ==
    /\ lastEvent = "submit"
    /\ ~inertiaForm.processing
    /\ veeErrors # NoErrors
    /\ veeErrors = formSchema(veeValues)
    /\ transportCalls = 0

\* C2: a submit event while processing is true starts no second request and
\* leaves values, errors and processing of both forms as they were.
NoDuplicateInFlight ==
    [][(EventStep("submit") /\ inertiaForm.processing)
         => /\ transportCalls' = transportCalls
            /\ inFlight' = inFlight
            /\ inertiaForm' = inertiaForm
            /\ veeValues' = veeValues
            /\ veeErrors' = veeErrors]_vars

\* C2 witness: the last event is a submit that cannot be the one that sent
\* the request in flight: the e-mail typed since then would not pass the
\* gate, and no validation error is shown.
NoDuplicateInFlightWitness ==
    /\ lastEvent = "submit"
    /\ inertiaForm.processing
    /\ phase = "Submitting"
    /\ pending = {}
    /\ veeValues.email = "bad"
    /\ veeErrors = NoErrors
    /\ transportCalls = 1
    /\ inFlight = 1

\* C3: once no value watcher is queued, the validation form's values equal
\* the Inertia form's values field by field.
Mirroring ==
    (pending \cap Fields = {})
        => \A f \in Fields : veeValues[f] = inertiaForm[f]

\* C3 witness: typed values and the password reset of a failure have all
\* been propagated.
MirroringWitness ==
    /\ pending = {}
    /\ lastEvent = "failure"
    /\ veeValues = [email |-> "a@b.com", password |-> "", remember |-> TRUE]
    /\ inertiaForm.password = ""

\* C4: after an event that replaced inertiaForm.errors (a response or a
\* close), once the errors watcher has run, the validation form's errors are
\* exactly the new mapping.
ErrorReplace ==
    (lastEvent \in {"success", "failure", "close"} /\ "errors" \notin pending)
        => veeErrors = inertiaForm.errors

\* C4 witness: a second failure replaced the e-mail error of the first by a
\* password error, and the watcher has run.
ErrorReplaceWitness ==
    /\ lastEvent = "failure"
    /\ pending = {}
    /\ Len(toasts) = 2
    /\ toasts[1].description = "These credentials do not match our records."
    /\ inertiaForm.errors = [password |-> "Invalid credentials"]
    /\ veeErrors = [password |-> "Invalid credentials"]

\* C5: a submission that reached the transport runs exactly one of
\* onSuccess / onError, then onFinish once, and processing stays true until
\* onFinish has run.
LifecycleOrder ==
    /\ signals \in {<<>>, <<"Success">>, <<"Failure">>,
                    <<"Success", "Finished">>, <<"Failure", "Finished">>}
    /\ phase = "Submitting" => signals = <<>>
    /\ phase = "SideEffects" => Len(signals) = 1
    /\ (phase = "Idle" /\ transportCalls > 0) => Len(signals) = 2
    /\ inertiaForm.processing <=> (transportCalls > 0 /\ Len(signals) < 2)

\* C5 witness: a failed submission has run to its end.
LifecycleOrderWitness ==
    /\ phase = "Idle"
    /\ signals = <<"Failure", "Finished">>
    /\ ~inertiaForm.processing

ExpectedFailureText(E) ==
    IF "email" \in DOMAIN E /\ E["email"] # "" THEN E["email"]
    ELSE IF "password" \in DOMAIN E /\ E["password"] # "" THEN E["password"]
    ELSE "Check credentials and try again."

\* C7: handling a failure with mapping E emits exactly one notification, of
\* level error, whose description is E.email if non-empty, else E.password
\* if non-empty, else the fallback.
FailureNotificationText ==
    [][EventStep("failure")
         => /\ Len(toasts') = Len(toasts) + 1
            /\ SubSeq(toasts', 1, Len(toasts)) = toasts
            /\ toasts'[Len(toasts')].level = "error"
            /\ toasts'[Len(toasts')].description
                   = ExpectedFailureText(inertiaForm'.errors)
            /\ (inertiaForm'.errors = [password |-> "Invalid credentials"]
                  => toasts'[Len(toasts')].description = "Invalid credentials")]_vars

\* C7 witness: a failure whose e-mail message is empty was reported with the
\* password message.
FailureNotificationTextWitness ==
    /\ lastEvent = "failure"
    /\ inertiaForm.errors = [email |-> "", password |-> "Invalid credentials"]
    /\ Len(toasts) > 0
    /\ toasts[Len(toasts)].level = "error"
    /\ toasts[Len(toasts)].description = "Invalid credentials"

\* C8: handling a success closes the login flag, emits exactly one
\* notification, of level success, and leaves email, password and remember
\* unchanged.
SuccessEffects ==
    [][EventStep("success")
         => /\ ~isLoginOpen'
            /\ Len(toasts') = Len(toasts) + 1
            /\ SubSeq(toasts', 1, Len(toasts)) = toasts
            /\ toasts'[Len(toasts')].level = "success"
            /\ FormValues(inertiaForm') = FormValues(inertiaForm)]_vars

\* C8 witness: scenario A has succeeded with the modal open until then.
SuccessEffectsWitness ==
    /\ lastEvent = "success"
    /\ ~isLoginOpen
    /\ FormValues(inertiaForm) = [email |-> "a@b.com", password |-> "x",
                                  remember |-> FALSE]
    /\ toasts = <<[level |-> "success", title |-> "Login successful",
                   description |-> "You have successfully logged in."]>>

\* C9: a submit with values {email: "", password: "x"} is refused, nothing
\* reaches the transport, the validation form's errors are exactly
\* {email: "Email is required"}, and the modal stays open.
ScenarioB ==
    [][(EventStep("submit") /\ ~inertiaForm.processing
          /\ veeValues.email = "" /\ veeValues.password = "x")
         => /\ transportCalls' = transportCalls
            /\ veeErrors' = [email |-> "Email is required"]
            /\ isLoginOpen']_vars

\* C10: after an external close inertiaForm.errors is empty, and once the
\* errors watcher has run the validation form shows no error either.
ExternalCloseClearsErrors ==
    lastEvent = "close"
        => /\ inertiaForm.errors = NoErrors
           /\ "errors" \notin pending => veeErrors = NoErrors

\* C10 witness: a failure left an e-mail error, the modal was then closed
\* and the watcher has run.
ExternalCloseClearsErrorsWitness ==
    /\ lastEvent = "close"
    /\ ~isLoginOpen
    /\ pending = {}
    /\ Len(toasts) = 1
    /\ toasts[1].description = "These credentials do not match our records."
    /\ inertiaForm.errors = NoErrors
    /\ veeErrors = NoErrors

\* A queued watcher runs in this step.
WatcherStep == pending' # pending /\ pending' \subseteq pending /\ tick' = tick

\* The step is a submit click that the button lets through (the gate runs).
GateStep == EventStep("submit") /\ ~inertiaForm.processing

\* C11: whenever the login flag goes from closed to open,
\* inertiaForm.errors is empty.
NoStaleErrorsOnReopen ==
    [][(~isLoginOpen /\ isLoginOpen') => inertiaForm'.errors = NoErrors]_vars

\* C12: a submit refused by the gate runs none of onSuccess, onError,
\* onFinish, emits no notification, and leaves the submission Idle.
GateFailureSilent ==
    [][(GateStep /\ formSchema(veeValues) # NoErrors)
         => /\ signals' = signals
            /\ toasts' = toasts
            /\ phase = "Idle"
            /\ phase' = "Idle"]_vars

\* C12 witness: after a failed submission had finished, a submit was refused
\* by the gate; the signals and the one toast are still those of the
\* earlier submission.
GateFailureSilentWitness ==
    /\ lastEvent = "submit"
    /\ phase = "Idle"
    /\ veeErrors # NoErrors
    /\ veeErrors = formSchema(veeValues)
    /\ signals = <<"Failure", "Finished">>
    /\ Len(toasts) = 1
    /\ transportCalls = 1

\* C13: a refused submit and a failure leave the login flag as it is; the
\* flag goes from open to closed only in onSuccess or on a close event.
StaysOpenOnFailure ==
    [][/\ (EventStep("failure") \/ EventStep("submit"))
            => isLoginOpen' = isLoginOpen
       /\ (isLoginOpen /\ ~isLoginOpen')
            => (EventStep("success") \/ EventStep("close"))]_vars

\* C13 witness: a failure was handled with the modal open, and it is open.
StaysOpenOnFailureWitness ==
    /\ lastEvent = "failure"
    /\ before.open
    /\ isLoginOpen
    /\ phase = "SideEffects"
    /\ inertiaForm.errors = [password |-> "Invalid credentials"]

\* C14 as stated: a close that finds the flag already closed, or the errors
\* already empty, leaves flag, Inertia form and validation form unchanged.
IdempotentCloseAsStated ==
    [][(EventStep("close")
          /\ (~isLoginOpen \/ inertiaForm.errors = NoErrors))
         => /\ isLoginOpen' = isLoginOpen
            /\ inertiaForm' = inertiaForm
            /\ veeValues' = veeValues
            /\ veeErrors' = veeErrors]_vars

\* C14 amended: a close that finds the flag already closed and the errors
\* already empty leaves flag, values, errors and processing unchanged; the
\* validation form shows no error before it and none after the errors
\* watcher has run; every close ends closed with empty errors, so a second
\* close is of this kind.
IdempotentClose ==
    [][/\ (EventStep("close") /\ ~isLoginOpen /\ inertiaForm.errors = NoErrors)
            => /\ isLoginOpen' = isLoginOpen
               /\ inertiaForm' = inertiaForm
               /\ veeValues' = veeValues
               /\ veeErrors = NoErrors
               /\ veeErrors' = veeErrors
       /\ (WatcherStep /\ lastEvent = "close" /\ ~before.open
             /\ before.errors = NoErrors)
            => /\ veeErrors' = veeErrors
               /\ veeValues' = veeValues
       /\ EventStep("close")
            => ~isLoginOpen' /\ inertiaForm'.errors = NoErrors]_vars

\* C14 witness: after a success had closed the modal, a close found it
\* closed with empty errors; the typed values are still there and the
\* watcher has run.
IdempotentCloseWitness ==
    /\ lastEvent = "close"
    /\ ~before.open
    /\ before.errors = NoErrors
    /\ ~isLoginOpen
    /\ pending = {}
    /\ veeErrors = NoErrors
    /\ inertiaForm.errors = NoErrors
    /\ FormValues(inertiaForm) = [email |-> "a@b.com", password |-> "x",
                                  remember |-> TRUE]
    /\ signals = <<"Success", "Finished">>

\* C15: when the gate runs, the validation form's values equal the Inertia
\* form's values.
PropagationBeforeGate ==
    [][GateStep => \A f \in Fields : veeValues[f] = inertiaForm[f]]_vars

\* C15 witness: the gate has just passed a second time, on a password typed
\* again after the reset of a failure had been propagated.
PropagationBeforeGateWitness ==
    /\ lastEvent = "submit"
    /\ phase = "Submitting"
    /\ signals = <<>>
    /\ transportCalls = 2
    /\ Len(toasts) = 1
    /\ toasts[1].level = "error"
    /\ veeValues.password = "x"
    /\ inertiaForm.password = "x"

\* C16: a submission that raised processing always gets back to Idle with
\* processing lowered, and the submission is never left outside Idle.
ReturnsToIdle ==
    /\ inertiaForm.processing ~> (phase = "Idle" /\ ~inertiaForm.processing)
    /\ (phase # "Idle") ~> (phase = "Idle")

\* C16 witness: after a failed submission, a second one reached the
\* transport and has also come back to Idle.
ReturnsToIdleWitness ==
    /\ phase = "Idle"
    /\ ~inertiaForm.processing
    /\ transportCalls = 2
    /\ Len(toasts) = 2
    /\ toasts[1].level = "error"
    /\ Len(signals) = 2

\* C17: watcher runs and the gate never change the Inertia form's values or
\* errors, and inertiaForm.errors is always empty or a mapping the transport
\* answered with.
NoBackPropagation ==
    /\ [][/\ WatcherStep => inertiaForm' = inertiaForm
          /\ EventStep("submit")
               => /\ FormValues(inertiaForm') = FormValues(inertiaForm)
                  /\ inertiaForm'.errors = inertiaForm.errors]_vars
    /\ [](inertiaForm.errors \in RemoteErrorSets)

\* C17 witness: the gate has just shown a local e-mail message while
\* inertiaForm.errors still holds the password error of the transport.
NoBackPropagationWitness ==
    /\ lastEvent = "submit"
    /\ veeErrors = [email |-> "Please enter a valid email address"]
    /\ inertiaForm.errors = [password |-> "Invalid credentials"]
    /\ pending = {}

\* C18: after the gate has run, the validation form's errors are the
\* schema's mapping for the current values: its messages for the fields in
\* error and nothing else, so nothing at all when the values pass.
GateErrorsAtomic ==
    [][GateStep
         => /\ veeErrors' = formSchema(FormValues(inertiaForm))
            /\ (\A f \in Fields : issues(inertiaForm, f) = <<>>)
                  => veeErrors' = NoErrors]_vars

\* C18 witness: the gate passed and cleared the e-mail error imported from
\* the previous failure, which inertiaForm.errors still holds.
GateErrorsAtomicWitness ==
    /\ lastEvent = "submit"
    /\ phase = "Submitting"
    /\ transportCalls = 2
    /\ veeErrors = NoErrors
    /\ inertiaForm.errors = [email |-> "These credentials do not match our records."]

\* C19: a close empties inertiaForm.errors and leaves the values and
\* processing of the Inertia form unchanged, in flight or not.
ClearErrorsFrame ==
    [][EventStep("close")
         => /\ inertiaForm'.errors = NoErrors
            /\ FormValues(inertiaForm') = FormValues(inertiaForm)
            /\ inertiaForm'.processing = inertiaForm.processing]_vars

\* C19 witness: a close during a submission in flight cleared the errors
\* left by an earlier failure; processing is still raised.
ClearErrorsFrameWitness ==
    /\ lastEvent = "close"
    /\ before.errors = [password |-> "Invalid credentials"]
    /\ inertiaForm.errors = NoErrors
    /\ inertiaForm.processing
    /\ phase = "Submitting"
    /\ inertiaForm.password = "x"

\* C20: at most one submission is outstanding, and processing is true
\* exactly while one is; it is false in Idle.
InFlightInvariant ==
    /\ inFlight \in {0, 1}
    /\ inertiaForm.processing <=> inFlight = 1
    /\ phase = "Idle" => ~inertiaForm.processing
    /\ phase # "Idle" => inertiaForm.processing

\* C20 witness: the second submission is outstanding, its response handled
\* and onFinish still to run.
InFlightInvariantWitness ==
    /\ inFlight = 1
    /\ inertiaForm.processing
    /\ phase = "SideEffects"
    /\ transportCalls = 2
====
